---- MODULE Spec2Model ----
(***************************************************************************)
(* Model of the two Slack socket-mode trigger nodes                        *)
(*   src/nodes/SlackSocketDashTrigger/SlackSocketDashTrigger.node.ts       *)
(*   src/nodes/SlackSocketTriggerV2Trigger/SlackSocketTriggerV2Trigger...  *)
(* One behaviour is one node instance: trigger() runs step by step, the    *)
(* host then calls the returned manualTriggerFunction / closeFunction, and *)
(* the Bolt App dispatches inbound events to the registered listeners.     *)
(* Every `await` of the source is a point where other callbacks may run.   *)
(***************************************************************************)
EXTENDS Integers, Sequences, FiniteSets, TLC

\* ---------------------------------------------------------------- bounds
MaxEvents == 1
MaxManualCalls == 1
MaxCloseCalls == 2

\* ------------------------------------------------------- input universes
Nodes == {"SlackSocketDashTrigger", "SlackSocketTriggerV2Trigger"}
Modes == {"trigger", "manual"}
TriggerTypes == {"slashCommand", "events", "interactiveComponent"}
SlashCommandNames == {"", "/a"}
Undefined == "undefined"

\* Arguments the SDK hands to a listener: the four fields the code reads
\* plus one it does not read (respond).  A field the SDK did not supply
\* reads as Undefined.
InboundEvents ==
  { [kind |-> "command",
     args |-> [command |-> "/a", body |-> "bodyA", context |-> "ctx",
               payload |-> "payA", respond |-> "respondFn"]],
    [kind |-> "command",
     args |-> [command |-> "/b", body |-> Undefined, context |-> "ctx",
               payload |-> "payB", respond |-> "respondFn"]],
    [kind |-> "event",
     args |-> [command |-> Undefined, body |-> "bodyE", context |-> "ctx",
               payload |-> "payE", respond |-> Undefined]],
    [kind |-> "action",
     args |-> [command |-> Undefined, body |-> "bodyI", context |-> Undefined,
               payload |-> "payI", respond |-> "respondFn"]] }

VARIABLES
  node,              \* which of the two classes this instance is
  mode,              \* this.getMode()
  triggerType,       \* node parameter triggerType
  slashCommandName,  \* node parameter slashCommandName
  tpc,               \* position of trigger()
  appState,          \* the App: none/constructed/started/startFailed/stopped
  listeners,         \* listeners registered on the App
  calls,             \* calls made on the host and the App, in order
  triggerStart,      \* outcome of the app.start() awaited by trigger()
  log,               \* this.logger calls, counted per message
  returned,          \* the ITriggerResponse handed to the host
  manual,            \* invocations of manualTriggerFunction
  close,             \* invocations of closeFunction
  events,            \* inbound events delivered by the SDK
  emitted            \* this.emit calls, in order

vars == <<node, mode, triggerType, slashCommandName, tpc, appState, listeners,
          calls, triggerStart, log, returned, manual, close, events, emitted>>

config == <<node, mode, triggerType, slashCommandName>>

\* --------------------------------------------------------------- helpers
\* The pattern handed to app.command: the configured name when it is truthy,
\* the regular expression /.*/ otherwise.
CommandPatternAlwaysAll(name) == [type |-> "regexp", source |-> ".*"]

CommandPattern(name) ==
  IF name # "" THEN [type |-> "string", source |-> name]
               ELSE [type |-> "regexp", source |-> ".*"]

\* Bolt's command matching: a string pattern matches by equality, the
\* regular expression /.*/ matches every command name.
MatchesPattern(pattern, candidate) ==
  IF pattern.type = "string" THEN pattern.source = candidate
                             ELSE pattern.source = ".*"

\* The method of the App that listens for a kind of inbound event.
ListenerMethod(kind) ==
  CASE kind = "command" -> "command"
    [] kind = "event"   -> "event"
    [] kind = "action"  -> "action"

ListenerMatches(l, ev) ==
  /\ l.method = ListenerMethod(ev.kind)
  /\ l.method = "command" => MatchesPattern(l.pattern, ev.args.command)

\* The object literal { command, body, context, payload } of process.
EventDataWithRespond(args) ==
  [command |-> args.command, body |-> args.body, context |-> args.context,
   payload |-> args.payload, respond |-> args.respond]

EventData(args) ==
  [command |-> args.command, body |-> args.body, context |-> args.context,
   payload |-> args.payload]

\* helpers.returnJsonArray on a single object without a json key.
ReturnJsonArray(data) == << [json |-> data] >>

\* The argument of this.emit: one item list in a batch.
EmitArgument(args) == << ReturnJsonArray(EventData(args)) >>

Call(op, by, id) == [op |-> op, by |-> by, id |-> id]

\* this.logger: how many times each message was written.  The messages
\* ending in Error are written with logger.error, the others with
\* logger.info.
LogMessages == {"startedTrigger", "startTriggerError", "startedTest",
                "startTestError", "stopped", "stopError"}
Logged(l, msg) == [l EXCEPT ![msg] = @ + 1]

\* ------------------------------------------------------------------ Init
Init ==
  /\ node \in Nodes
  /\ mode \in Modes
  /\ triggerType \in TriggerTypes
  /\ slashCommandName \in SlashCommandNames
  /\ tpc = "getCredentials"
  /\ appState = "none"
  /\ listeners = {}
  /\ calls = << >>
  /\ triggerStart = "none"
  /\ log = [m \in LogMessages |-> 0]
  /\ returned = {}
  /\ manual = << >>
  /\ close = << >>
  /\ events = << >>
  /\ emitted = << >>

\* ------------------------------------------------------------- trigger()
GetCredentials ==
  /\ tpc = "getCredentials"
  /\ \E ok \in BOOLEAN : tpc' = IF ok THEN "newApp" ELSE "threw"
  /\ calls' = Append(calls, Call("getCredentials", "trigger", 0))
  /\ UNCHANGED <<config, appState, listeners, triggerStart, log, returned,
                 manual, close, events, emitted>>

NewApp ==
  /\ tpc = "newApp"
  /\ appState' = "constructed"
  /\ calls' = Append(calls, Call("new", "trigger", 0))
  /\ tpc' = "register"
  /\ UNCHANGED <<config, triggerStart,
                 listeners, log, returned, manual, close, events,
                 emitted>>

RegisterNothing ==
  /\ tpc = "register"
  /\ tpc' = "modeCheck"
  /\ UNCHANGED <<config, triggerStart,
                 appState, listeners, calls, log, returned, manual,
                 close, events, emitted>>

RegisterListeners ==
  /\ tpc = "register"
  /\ listeners' = listeners \cup
        { [method |-> "command", pattern |-> CommandPattern(slashCommandName)] }
  /\ calls' = Append(calls, Call("command", "trigger", 0))
  /\ tpc' = "modeCheck"
  /\ UNCHANGED <<config, triggerStart,
                 appState, log, returned, manual, close, events,
                 emitted>>

TriggerStartCall ==
  /\ tpc = "modeCheck"
  /\ mode = "trigger"
  /\ calls' = Append(calls, Call("start", "trigger", 0))
  /\ triggerStart' = "pending"
  /\ tpc' = "awaitStart"
  /\ UNCHANGED <<config, appState, listeners, log, returned, manual, close,
                 events, emitted>>

TriggerSkipStart ==
  /\ tpc = "modeCheck"
  /\ mode # "trigger"
  /\ tpc' = "return"
  /\ UNCHANGED <<config, triggerStart,
                 appState, listeners, calls, log, returned, manual,
                 close, events, emitted>>

TriggerStartSettleRetry(ok) ==
  /\ tpc = "awaitStart"
  /\ triggerStart' = IF ok THEN "ok" ELSE "failed"
  /\ IF ok
       THEN /\ appState' = "started"
            /\ log' = Logged(log, "startedTrigger")
            /\ tpc' = "return"
       ELSE /\ appState' = "startFailed"
            /\ log' = Logged(log, "startTriggerError")
            /\ tpc' = "modeCheck"
  /\ UNCHANGED <<config, listeners, calls, returned, manual, close, events,
                 emitted>>

TriggerStartSettleSwapped(ok) ==
  /\ tpc = "awaitStart"
  /\ triggerStart' = IF ok THEN "ok" ELSE "failed"
  /\ IF ok
       THEN /\ appState' = "started"
            /\ log' = Logged(log, "startedTrigger")
            /\ tpc' = "return"
       ELSE /\ appState' = "startFailed"
            /\ log' = Logged(log, "startTriggerError")
            /\ tpc' = IF node = "SlackSocketDashTrigger" THEN "return"
                                                         ELSE "threw"
  /\ UNCHANGED <<config, listeners, calls, returned, manual, close, events,
                 emitted>>

TriggerStartSettle(ok) ==
  /\ tpc = "awaitStart"
  /\ triggerStart' = IF ok THEN "ok" ELSE "failed"
  /\ IF ok
       THEN /\ appState' = "started"
            /\ log' = Logged(log, "startedTrigger")
            /\ tpc' = "return"
       ELSE /\ appState' = "startFailed"
            /\ log' = Logged(log, "startTriggerError")
            /\ tpc' = IF node = "SlackSocketDashTrigger" THEN "threw"
                                                         ELSE "return"
  /\ UNCHANGED <<config, listeners, calls, returned, manual, close, events,
                 emitted>>

TriggerReturn ==
  /\ tpc = "return"
  /\ returned' = {"closeFunction", "manualTriggerFunction"}
  /\ tpc' = "returned"
  /\ calls' = Append(calls, Call("return", "trigger", 0))
  /\ UNCHANGED <<config, appState, listeners, triggerStart, log, manual, close,
                 events, emitted>>

\* ------------------------------------------------- manualTriggerFunction
ManualInvoke ==
  /\ "manualTriggerFunction" \in returned
  /\ Len(manual) < MaxManualCalls
  /\ manual' = Append(manual, [pc |-> "awaitStart", result |-> "pending",
                               startOutcome |-> "pending"])
  /\ calls' = Append(calls, Call("start", "manual", Len(manual) + 1))
  /\ UNCHANGED <<config, triggerStart,
                 tpc, appState, listeners, log, returned, close,
                 events, emitted>>

ManualStartSettleSwapped(i, ok) ==
  /\ i \in DOMAIN manual
  /\ manual[i].pc = "awaitStart"
  /\ IF ok
       THEN /\ appState' = "started"
            /\ log' = Logged(log, "startedTest")
            /\ manual' = [manual EXCEPT ![i] =
                 [pc |-> "done", result |-> "resolved", startOutcome |-> "ok"]]
       ELSE /\ appState' = "startFailed"
            /\ log' = Logged(log, "startTestError")
            /\ manual' = [manual EXCEPT ![i] =
                 [pc |-> "done",
                  result |-> IF node = "SlackSocketDashTrigger"
                               THEN "resolved" ELSE "rejected",
                  startOutcome |-> "failed"]]
  /\ UNCHANGED <<config, triggerStart,
                 tpc, listeners, calls, returned, close, events,
                 emitted>>

ManualStartSettle(i, ok) ==
  /\ i \in DOMAIN manual
  /\ manual[i].pc = "awaitStart"
  /\ IF ok
       THEN /\ appState' = "started"
            /\ log' = Logged(log, "startedTest")
            /\ manual' = [manual EXCEPT ![i] =
                 [pc |-> "done", result |-> "resolved", startOutcome |-> "ok"]]
       ELSE /\ appState' = "startFailed"
            /\ log' = Logged(log, "startTestError")
            /\ manual' = [manual EXCEPT ![i] =
                 [pc |-> "done",
                  result |-> IF node = "SlackSocketDashTrigger"
                               THEN "rejected" ELSE "resolved",
                  startOutcome |-> "failed"]]
  /\ UNCHANGED <<config, triggerStart,
                 tpc, listeners, calls, returned, close, events,
                 emitted>>

\* ---------------------------------------------------------- closeFunction
CloseInvoke ==
  /\ "closeFunction" \in returned
  /\ Len(close) < MaxCloseCalls
  /\ close' = Append(close, [pc |-> "awaitStop", result |-> "pending",
                             stopOutcome |-> "pending", prior |-> appState])
  /\ calls' = Append(calls, Call("stop", "close", Len(close) + 1))
  /\ UNCHANGED <<config, triggerStart,
                 tpc, appState, listeners, log, returned, manual,
                 events, emitted>>

CloseStopSettleRethrow(i, ok) ==
  /\ i \in DOMAIN close
  /\ close[i].pc = "awaitStop"
  /\ IF ok
       THEN /\ appState' = "stopped"
            /\ log' = Logged(log, "stopped")
            /\ close' = [close EXCEPT ![i].pc = "done",
                                       ![i].result = "resolved",
                                       ![i].stopOutcome = "ok"]
       ELSE /\ appState' = appState
            /\ log' = Logged(log, "stopError")
            /\ close' = [close EXCEPT ![i].pc = "done",
                                       ![i].result = "rejected",
                                       ![i].stopOutcome = "failed"]
  /\ UNCHANGED <<config, triggerStart,
                 tpc, listeners, calls, returned, manual, events,
                 emitted>>

CloseStopSettle(i, ok) ==
  /\ i \in DOMAIN close
  /\ close[i].pc = "awaitStop"
  /\ IF ok
       THEN /\ appState' = "stopped"
            /\ log' = Logged(log, "stopped")
            /\ close' = [close EXCEPT ![i].pc = "done",
                                       ![i].result = "resolved",
                                       ![i].stopOutcome = "ok"]
       ELSE /\ appState' = appState
            /\ log' = Logged(log, "stopError")
            /\ close' = [close EXCEPT ![i].pc = "done",
                                       ![i].result = "resolved",
                                       ![i].stopOutcome = "failed"]
  /\ UNCHANGED <<config, triggerStart,
                 tpc, listeners, calls, returned, manual, events,
                 emitted>>

\* ------------------------------------------- inbound events and handler
\* The SDK delivers an inbound event on a started connection and invokes
\* the handler of every listener that matches it.
Dispatch(ev) ==
  /\ appState = "started"
  /\ Len(events) < MaxEvents
  /\ events' = Append(events,
       [kind |-> ev.kind, args |-> ev.args,
        pc |-> IF \E l \in listeners : ListenerMatches(l, ev)
                 THEN "invoked" ELSE "unhandled",
        ack |-> "none", ackCalls |-> 0, emitCalls |-> 0])
  /\ UNCHANGED <<config, triggerStart,
                 tpc, appState, listeners, calls, log, returned,
                 manual, close, emitted>>

\* handler -> process: destructure the arguments and call ack().
ProcessEmitThenAck(i) ==
  /\ i \in DOMAIN events
  /\ events[i].pc = "invoked"
  /\ events' = [events EXCEPT ![i].pc = "awaitAck", ![i].ack = "pending",
                              ![i].ackCalls = @ + 1, ![i].emitCalls = @ + 1]
  /\ emitted' = Append(emitted, [event |-> i,
                                 data |-> EmitArgument(events[i].args)])
  /\ UNCHANGED <<config, triggerStart,
                 tpc, appState, listeners, calls, log, returned,
                 manual, close>>

ProcessCallAck(i) ==
  /\ i \in DOMAIN events
  /\ events[i].pc = "invoked"
  /\ events' = [events EXCEPT ![i].pc = "awaitAck", ![i].ack = "pending",
                              ![i].ackCalls = @ + 1]
  /\ UNCHANGED <<config, triggerStart,
                 tpc, appState, listeners, calls, log, returned,
                 manual, close, emitted>>

\* The promise returned by ack() settles.
AckSettle(i, ok) ==
  /\ i \in DOMAIN events
  /\ events[i].pc = "awaitAck"
  /\ events[i].ack = "pending"
  /\ events' = [events EXCEPT ![i].ack = IF ok THEN "resolved" ELSE "rejected"]
  /\ UNCHANGED <<config, triggerStart,
                 tpc, appState, listeners, calls, log, returned,
                 manual, close, emitted>>

\* process resumes after `await ack()`: emit, or propagate the rejection.
ProcessResumeSwallow(i) ==
  /\ i \in DOMAIN events
  /\ events[i].pc = "awaitAck"
  /\ events[i].ack # "pending"
  /\ events' = [events EXCEPT ![i].pc = "done", ![i].emitCalls = @ + 1]
  /\ emitted' = Append(emitted, [event |-> i,
                                 data |-> EmitArgument(events[i].args)])
  /\ UNCHANGED <<config, triggerStart,
                 tpc, appState, listeners, calls, log, returned,
                 manual, close>>

ProcessResume(i) ==
  /\ i \in DOMAIN events
  /\ events[i].pc = "awaitAck"
  /\ events[i].ack # "pending"
  /\ IF events[i].ack = "resolved"
       THEN /\ events' = [events EXCEPT ![i].pc = "done",
                                        ![i].emitCalls = @ + 1]
            /\ emitted' = Append(emitted,
                 [event |-> i, data |-> EmitArgument(events[i].args)])
       ELSE /\ events' = [events EXCEPT ![i].pc = "rejected"]
            /\ emitted' = emitted
  /\ UNCHANGED <<config, triggerStart,
                 tpc, appState, listeners, calls, log, returned,
                 manual, close>>

\* ------------------------------------------------------------------ Next
Next ==
  \/ GetCredentials
  \/ NewApp
  \/ RegisterListeners
  \/ TriggerStartCall
  \/ TriggerSkipStart
  \/ \E ok \in BOOLEAN : TriggerStartSettle(ok)
  \/ TriggerReturn
  \/ ManualInvoke
  \/ \E i \in 1..MaxManualCalls, ok \in BOOLEAN : ManualStartSettle(i, ok)
  \/ CloseInvoke
  \/ \E i \in 1..MaxCloseCalls, ok \in BOOLEAN : CloseStopSettle(i, ok)
  \/ \E ev \in InboundEvents : Dispatch(ev)
  \/ \E i \in 1..MaxEvents : ProcessCallAck(i)
  \/ \E i \in 1..MaxEvents, ok \in BOOLEAN : AckSettle(i, ok)
  \/ \E i \in 1..MaxEvents : ProcessResume(i)

Spec == Init /\ [][Next]_vars

\* ============================================================ properties
CallsOf(op, by, id) ==
  Cardinality({ j \in DOMAIN calls : calls[j] = Call(op, by, id) })

EmitsOf(i) == { j \in DOMAIN emitted : emitted[j].event = i }

\* The App method that serves each option of the triggerType parameter.
TriggerTypeMethod(t) ==
  CASE t = "slashCommand"         -> "command"
    [] t = "events"               -> "event"
    [] t = "interactiveComponent" -> "action"

\* Position of each step of trigger() in the order the specification gives.
StepRank(op) ==
  CASE op = "getCredentials" -> 1
    [] op = "new"            -> 2
    [] op = "command"        -> 3
    [] op = "start"          -> 4
    [] op = "return"         -> 5

\* C1: every handler invocation calls ack() exactly once, and emit is called
\* for an event only after that ack call has completed, never before it.
C1_AckOnceBeforeEmit ==
  \A i \in DOMAIN events :
    /\ events[i].ackCalls <= 1
    /\ events[i].pc \in {"awaitAck", "done", "rejected"}
          => events[i].ackCalls = 1
    /\ events[i].emitCalls = Cardinality(EmitsOf(i))
    /\ events[i].emitCalls > 0
          => events[i].ackCalls = 1 /\ events[i].ack = "resolved"

C1_Witness ==
  \E i \in DOMAIN events :
    /\ events[i].pc = "done"
    /\ events[i].ackCalls = 1
    /\ events[i].emitCalls = 1

\* C2: with a non-empty slash-command filter the handler is invoked only for
\* commands that match it; with an empty filter it is invoked for every
\* command.
C2_FilterSelectsCommands ==
  \A i \in DOMAIN events :
    /\ events[i].pc # "unhandled" => events[i].kind = "command"
    /\ events[i].kind = "command" =>
         /\ slashCommandName # ""
              => (events[i].pc # "unhandled"
                    => events[i].args.command = slashCommandName)
         /\ slashCommandName = "" => events[i].pc # "unhandled"

C2_Witness ==
  /\ slashCommandName = "/a"
  /\ \E i \in DOMAIN events :
       /\ events[i].kind = "command"
       /\ events[i].args.command = "/b"
       /\ events[i].pc = "unhandled"

\* C3: once trigger() has set up its listeners, a callback is registered for
\* the configured trigger type, also for events and interactiveComponent.
C3_ListenerForConfiguredType ==
  tpc \in {"modeCheck", "awaitStart", "return", "returned"}
    => \E l \in listeners : l.method = TriggerTypeMethod(triggerType)

\* C4: every invocation of closeFunction calls app.stop() exactly once,
\* whatever the connection's prior state, and never rejects; a failed stop
\* is logged and the call still resolves.
C4_CloseStopsOnceNeverThrows ==
  /\ \A i \in DOMAIN close :
       /\ CallsOf("stop", "close", i) = 1
       /\ close[i].result # "rejected"
       /\ close[i].pc = "done" => close[i].result = "resolved"
  /\ log["stopError"] =
       Cardinality({ i \in DOMAIN close : close[i].stopOutcome = "failed" })
  /\ log["stopped"] =
       Cardinality({ i \in DOMAIN close : close[i].stopOutcome = "ok" })
  /\ CallsOf("stop", "close", 0) = 0

C4_Witness ==
  \E i \in DOMAIN close :
    /\ close[i].prior = "stopped"
    /\ close[i].stopOutcome = "failed"
    /\ close[i].result = "resolved"

\* C5: a failed app.start() in trigger mode is logged; SlackSocketDashTrigger
\* then throws and returns no functions, SlackSocketTriggerV2Trigger goes on
\* and returns closeFunction and manualTriggerFunction with the connection
\* not started.
C5_TriggerStartFailure ==
  triggerStart = "failed" =>
    /\ mode = "trigger"
    /\ log["startTriggerError"] = 1
    /\ node = "SlackSocketDashTrigger" => tpc = "threw" /\ returned = {}
    /\ node = "SlackSocketTriggerV2Trigger" =>
         /\ tpc \in {"return", "returned"}
         /\ tpc = "return" => appState = "startFailed"
         /\ tpc = "returned"
              => returned = {"closeFunction", "manualTriggerFunction"}

C5_Witness ==
  /\ node = "SlackSocketTriggerV2Trigger"
  /\ triggerStart = "failed"
  /\ tpc = "returned"
  /\ appState = "startFailed"

\* C6: for an event whose ack succeeded, emit is called exactly once with a
\* batch of one item list built from exactly command, body, context and
\* payload of the event, values unchanged, nothing else forwarded.
C6_EmitForwardsFourFields ==
  /\ \A i \in DOMAIN events :
       events[i].pc = "done" =>
         /\ Cardinality(EmitsOf(i)) = 1
         /\ \A j \in EmitsOf(i) :
              /\ Len(emitted[j].data) = 1
              /\ Len(emitted[j].data[1]) = 1
              /\ DOMAIN emitted[j].data[1][1] = {"json"}
              /\ DOMAIN emitted[j].data[1][1].json =
                   {"command", "body", "context", "payload"}
              /\ \A f \in {"command", "body", "context", "payload"} :
                   emitted[j].data[1][1].json[f] = events[i].args[f]
  /\ \A j \in DOMAIN emitted : emitted[j].event \in DOMAIN events

C6_Witness ==
  \E i \in DOMAIN events :
    /\ events[i].pc = "done"
    /\ events[i].args.body = Undefined
    /\ \E j \in EmitsOf(i) : emitted[j].data[1][1].json.body = Undefined

\* C7: trigger() fetches credentials, constructs the client, registers the
\* command listener, starts the connection (if at all) and returns, in that
\* order; every app.start(), from trigger() or manualTriggerFunction, comes
\* after the listener registration.
C7_ListenerBeforeStart ==
  /\ \A j, k \in DOMAIN calls :
       (j < k /\ calls[j].by = "trigger" /\ calls[k].by = "trigger")
          => StepRank(calls[j].op) < StepRank(calls[k].op)
  /\ \A k \in DOMAIN calls :
       calls[k].op = "start"
          => \E j \in 1..(k - 1) : calls[j].op = "command"
  /\ appState = "started" => listeners # {}

C7_Witness ==
  /\ mode = "manual"
  /\ tpc = "returned"
  /\ appState = "started"
  /\ CallsOf("start", "manual", 1) = 1

\* C8: no start is retried: trigger() calls app.start() once in mode trigger
\* and never in another mode, every manualTriggerFunction call calls it once,
\* and a failed start is not followed by another attempt of the same call.
C8_NoStartRetry ==
  /\ mode # "trigger" => CallsOf("start", "trigger", 0) = 0
  /\ mode = "trigger" =>
       /\ CallsOf("start", "trigger", 0) <= 1
       /\ (tpc \in {"awaitStart", "return", "returned"}
             \/ triggerStart # "none")
            => CallsOf("start", "trigger", 0) = 1
  /\ \A i \in DOMAIN manual : CallsOf("start", "manual", i) = 1
  /\ \A k \in DOMAIN calls :
       (calls[k].op = "start" /\ calls[k].by = "manual")
          => calls[k].id \in DOMAIN manual

C8_Witness ==
  /\ triggerStart = "failed"
  /\ tpc = "threw"
  /\ CallsOf("start", "trigger", 0) = 1

\* C9: when ack() rejects, emit is never called for that event and the
\* handler rejects; an event is forwarded only if its ack succeeded.
C9_AckFailureNotForwarded ==
  /\ \A i \in DOMAIN events :
       events[i].ack = "rejected" =>
         /\ EmitsOf(i) = {}
         /\ events[i].pc \in {"awaitAck", "rejected"}
  /\ \A i \in DOMAIN events :
       events[i].pc = "rejected" => events[i].ack = "rejected"
  /\ \A j \in DOMAIN emitted : events[emitted[j].event].ack = "resolved"

C9_Witness ==
  \E i \in DOMAIN events :
    /\ events[i].pc = "rejected"
    /\ events[i].ack = "rejected"
    /\ EmitsOf(i) = {}

\* C10: a failed app.start() inside manualTriggerFunction is logged;
\* SlackSocketDashTrigger's function rejects, SlackSocketTriggerV2Trigger's
\* resolves although the connection did not start.
C10_ManualStartFailure ==
  /\ \A i \in DOMAIN manual :
       manual[i].startOutcome = "failed" =>
         /\ manual[i].pc = "done"
         /\ node = "SlackSocketDashTrigger" => manual[i].result = "rejected"
         /\ node = "SlackSocketTriggerV2Trigger"
              => manual[i].result = "resolved"
  /\ log["startTestError"] =
       Cardinality({ i \in DOMAIN manual : manual[i].startOutcome = "failed" })

C10_Witness ==
  /\ node = "SlackSocketTriggerV2Trigger"
  /\ \E i \in DOMAIN manual :
       /\ manual[i].startOutcome = "failed"
       /\ manual[i].result = "resolved"
  /\ appState = "startFailed"

====
